---- MODULE Spec2Model ----
\* Model of api/generate.js: the Vercel serverless function /api/generate.
\* One invocation of handler(req, res) is one behaviour: the request and the
\* environment are chosen in Init, the provider's replies are chosen by the
\* actions that resolve the awaited fetch() and response.json() promises.
EXTENDS Integers, Sequences, FiniteSets, TLC

\* ---------------------------------------------------------------------
\* Bounds and program constants
\* ---------------------------------------------------------------------

\* longest text the provider puts in candidates[0].content.parts[0].text
MaxLen == 5

\* longest text of the provider in the specification with fairness
LiveMaxLen == 2

\* const MAX_RETRIES = 5
MAX_RETRIES == 5

\* the factor 1000 of Math.pow(2, i) * 1000 (milliseconds)
BASE_DELAY == 1000

\* the JavaScript value undefined (an absent field, an unset variable)
Undefined == "<undefined>"

\* ---------------------------------------------------------------------
\* JSON text and JSON values
\* ---------------------------------------------------------------------
\* A JSON text is a sequence of tokens. "O" stands for the literal of one
\* component object {"componentName": ..., "componentDescription": ...},
\* "1" for a scalar literal, " " for white space.
Atoms == {"O", "1"}

Tokens == {"[", "]", ",", " "} \cup Atoms

\* A JSON value is a tree: t is "arr" for an array (v its elements) or the
\* atom itself (v empty).
Atom(a) == [t |-> a, v |-> <<>>]

Arr(elems) == [t |-> "arr", v |-> elems]

NoValue == [t |-> "none", v |-> <<>>]

ParseFail == [ok |-> FALSE, val |-> NoValue, pos |-> 0]

RECURSIVE SkipWs(_, _)
SkipWs(s, p) ==
    IF p <= Len(s) /\ s[p] = " " THEN SkipWs(s, p + 1) ELSE p

RECURSIVE ParseValue(_, _)
RECURSIVE ParseElements(_, _, _)
\* one value starting at position p (white space before it is skipped)
ParseValue(s, p) ==
    LET q == SkipWs(s, p) IN
    IF q > Len(s) THEN ParseFail
    ELSE IF s[q] \in Atoms THEN [ok |-> TRUE, val |-> Atom(s[q]), pos |-> q + 1]
    ELSE IF s[q] = "["
         THEN LET r == SkipWs(s, q + 1) IN
              IF r <= Len(s) /\ s[r] = "]"
              THEN [ok |-> TRUE, val |-> Arr(<<>>), pos |-> r + 1]
              ELSE ParseElements(s, q + 1, <<>>)
    ELSE ParseFail

\* the elements of a non-empty array, up to and including the closing "]"
ParseElements(s, p, acc) ==
    LET e == ParseValue(s, p) IN
    IF ~e.ok THEN ParseFail
    ELSE LET q == SkipWs(s, e.pos) IN
         IF q > Len(s) THEN ParseFail
         ELSE IF s[q] = "," THEN ParseElements(s, q + 1, Append(acc, e.val))
         ELSE IF s[q] = "]"
              THEN [ok |-> TRUE, val |-> Arr(Append(acc, e.val)), pos |-> q + 1]
         ELSE ParseFail

\* JSON.parse(text): ok = FALSE stands for the SyntaxError it throws
JSONparse(s) ==
    LET r == ParseValue(s, 1) IN
    IF r.ok /\ SkipWs(s, r.pos) > Len(s)
    THEN [ok |-> TRUE, val |-> r.val]
    ELSE [ok |-> FALSE, val |-> NoValue]

RECURSIVE JSONstringify(_)
RECURSIVE JoinElems(_, _)
JoinElems(elems, k) ==
    IF k > Len(elems) THEN <<>>
    ELSE (IF k > 1 THEN <<",">> ELSE <<>>) \o JSONstringify(elems[k])
         \o JoinElems(elems, k + 1)

\* JSON.stringify(value), as res.json(value) writes it
JSONstringify(val) ==
    IF val.t = "arr" THEN <<"[">> \o JoinElems(val.v, 1) \o <<"]">>
    ELSE <<val.t>>

RECURSIVE SeqsUpTo(_)
SeqsUpTo(n) ==
    IF n = 0 THEN {<<>>}
    ELSE LET shorter == SeqsUpTo(n - 1) IN
         shorter \cup {Append(s, c) : s \in {x \in shorter : Len(x) = n - 1}, c \in Tokens}

\* the texts the provider may return (the empty text included)
Texts == SeqsUpTo(MaxLen)

\* ---------------------------------------------------------------------
\* Requests, environment, provider replies
\* ---------------------------------------------------------------------
Methods == {"POST", "GET"}

\* process.env.GEMINI_API_KEY: unset, set to the empty string, or set
Keys == {Undefined, "", "key"}

\* req.body: undefined (no body was parsed), or an object whose prompt field
\* is absent, the empty string, or a text. hardwareData is only interpolated
\* into the payload and never branched on.
Bodies ==
    {[defined |-> FALSE, prompt |-> Undefined]}
    \cup {[defined |-> TRUE, prompt |-> p] : p \in {Undefined, "", "p"}}

Requests == [method : Methods, body : Bodies]

\* HTTP statuses of the provider's reply
Statuses == {200, 400, 403, 404, 429, 503}

\* response.ok
Ok(status) == status >= 200 /\ status <= 299

\* body of a non-ok reply: not JSON, the JSON value null, or an object with
\* error.message
ErrorBodies == {"unparsable", "null", "message"}

\* body of an ok reply, by what the handler reads of it: not JSON; null; no
\* candidates[0]; a candidate without content; content without parts; an
\* empty parts array; a first part with a text (possibly empty)
Envelope(shape, reason, text) == [shape |-> shape, finishReason |-> reason, text |-> text]

Envelopes ==
    {Envelope(sh, Undefined, <<>>) : sh \in {"unparsable", "null", "nocandidates"}}
    \cup {Envelope(sh, fr, <<>>) : sh \in {"nocontent", "noparts", "emptyparts", "text"},
                                   fr \in {Undefined, "SAFETY"}}
    \cup {Envelope("text", "STOP", t) : t \in Texts \ {<<>>}}

\* let apiResponse = null
NullResponse == Envelope("null", Undefined, <<>>)

\* ---------------------------------------------------------------------
\* Errors and responses
\* ---------------------------------------------------------------------
\* an Error, by the template of its message and the values interpolated
Err(kind, status, detail) == [kind |-> kind, status |-> status, detail |-> detail]

\* let lastError = null
NoError == Err("null", 0, "")

\* res.status(status).json(...): message names the fixed message text,
\* payload is the serialized value of a success body
Resp(status, message, errorCode, errorDetails, payload) ==
    [status |-> status, message |-> message, errorCode |-> errorCode,
     errorDetails |-> errorDetails, payload |-> payload]

ErrorResp(status, message, errorCode, errorDetails) ==
    Resp(status, message, errorCode, errorDetails, <<>>)

\* ---------------------------------------------------------------------
\* Input validation (stages 1, key check, body check)
\* ---------------------------------------------------------------------
\* JavaScript !x for the strings and undefined
Falsy(x) == x = Undefined \/ x = ""

\* each stage yields the responses it writes and whether the handler returned
Pass == [sent |-> <<>>, returned |-> FALSE]

Stop(resp) == [sent |-> <<resp>>, returned |-> TRUE]

MethodStageNoReturn(request) ==
    IF request.method # "POST"
    THEN [sent |-> <<ErrorResp(405, "Method Not Allowed", Undefined, NoError)>>,
          returned |-> FALSE]
    ELSE Pass

MethodStage(request) ==
    IF request.method # "POST"
    THEN Stop(ErrorResp(405, "Method Not Allowed", Undefined, NoError))
    ELSE Pass

KeyStageUndefinedOnly(key) ==
    IF key = Undefined
    THEN Stop(ErrorResp(500, "no API key", "NO_API_KEY_CONFIGURED", NoError))
    ELSE Pass

KeyStage(key) ==
    IF Falsy(key)
    THEN Stop(ErrorResp(500, "no API key", "NO_API_KEY_CONFIGURED", NoError))
    ELSE Pass

BodyStageUndefinedOnly(request) ==
    IF ~request.body.defined
    THEN Stop(ErrorResp(400, "Invalid JSON body", Undefined, NoError))
    ELSE IF request.body.prompt = Undefined
         THEN Stop(ErrorResp(400, "Prompt is required", Undefined, NoError))
         ELSE Pass

\* destructuring undefined throws a TypeError, caught by the try around it
BodyStage(request) ==
    IF ~request.body.defined
    THEN Stop(ErrorResp(400, "Invalid JSON body", Undefined, NoError))
    ELSE IF Falsy(request.body.prompt)
         THEN Stop(ErrorResp(400, "Prompt is required", Undefined, NoError))
         ELSE Pass

ValidateKeyFirst(request, key) ==
    LET s1 == KeyStage(key) IN
    IF s1.returned THEN s1
    ELSE LET s2 == MethodStage(request) IN
         IF s2.returned THEN [sent |-> s1.sent \o s2.sent, returned |-> TRUE]
         ELSE LET s3 == BodyStage(request) IN
              [sent |-> s1.sent \o s2.sent \o s3.sent, returned |-> s3.returned]

ValidateBodyFirst(request, key) ==
    LET s1 == MethodStage(request) IN
    IF s1.returned THEN s1
    ELSE LET s2 == BodyStage(request) IN
         IF s2.returned THEN [sent |-> s1.sent \o s2.sent, returned |-> TRUE]
         ELSE LET s3 == KeyStage(key) IN
              [sent |-> s1.sent \o s2.sent \o s3.sent, returned |-> s3.returned]

Validate(request, key) ==
    LET s1 == MethodStage(request) IN
    IF s1.returned THEN s1
    ELSE LET s2 == KeyStage(key) IN
         IF s2.returned THEN [sent |-> s1.sent \o s2.sent, returned |-> TRUE]
         ELSE LET s3 == BodyStage(request) IN
              [sent |-> s1.sent \o s2.sent \o s3.sent, returned |-> s3.returned]

\* ---------------------------------------------------------------------
\* The retry loop and the final parsing stage (pure parts)
\* ---------------------------------------------------------------------
\* 429 or any status >= 500
RetryableStatus(status) == status = 429 \/ status >= 500

\* the Error thrown inside the try for a reply that is not ok
ThrownForStatus(status, ebody) ==
    IF ebody = "null"
    THEN Err("TypeError", 0, "reading 'error'")
    ELSE LET errorMessage == IF ebody = "message" THEN "provider message"
                                                  ELSE "statusText" IN
         IF status = 403 \/ status = 400
         THEN Err("Gemini API Failed", status, errorMessage)
         ELSE IF RetryableStatus(status)
              THEN Err("API returned status, Retrying", status, errorMessage)
              ELSE Err("API returned unhandled status", status, errorMessage)

DelayLinear(n) == (n + 1) * BASE_DELAY

DelayCapped(n) == (IF n < 3 THEN 2 ^ n ELSE 4) * BASE_DELAY

\* Math.pow(2, i) * 1000
Delay(n) == (2 ^ n) * BASE_DELAY

\* the response of the final failure branch of the catch block
FinalFailure(error) ==
    ErrorResp(500, "Gemini API call failed", Undefined, error)

ParseFailureResp(error) ==
    ErrorResp(500, "AI generated invalid JSON", Undefined, error)

ParseAndReturnRawOnError(apiRes) ==
    IF apiRes.shape = "null"
    THEN ParseFailureResp(Err("TypeError", 0, "reading 'candidates'"))
    ELSE IF apiRes.shape = "nocandidates"
    THEN ParseFailureResp(Err("TypeError", 0, "reading 'content'"))
    ELSE IF apiRes.shape # "text" \/ apiRes.text = <<>>
    THEN ParseFailureResp(Err("Gemini returned empty content", 0,
            IF Falsy(apiRes.finishReason) THEN "UNKNOWN" ELSE apiRes.finishReason))
    ELSE LET parsed == JSONparse(apiRes.text) IN
         IF parsed.ok
         THEN Resp(200, Undefined, Undefined, NoError, JSONstringify(parsed.val))
         ELSE Resp(200, Undefined, Undefined, NoError, apiRes.text)

ParseAndReturnFirstElement(apiRes) ==
    IF apiRes.shape = "null"
    THEN ParseFailureResp(Err("TypeError", 0, "reading 'candidates'"))
    ELSE IF apiRes.shape = "nocandidates"
    THEN ParseFailureResp(Err("TypeError", 0, "reading 'content'"))
    ELSE IF apiRes.shape # "text" \/ apiRes.text = <<>>
    THEN ParseFailureResp(Err("Gemini returned empty content", 0,
            IF Falsy(apiRes.finishReason) THEN "UNKNOWN" ELSE apiRes.finishReason))
    ELSE LET parsed == JSONparse(apiRes.text) IN
         IF parsed.ok
         THEN Resp(200, Undefined, Undefined, NoError,
                   JSONstringify(IF parsed.val.t = "arr" /\ Len(parsed.val.v) > 1
                                 THEN Arr(<<parsed.val.v[1]>>) ELSE parsed.val))
         ELSE ParseFailureResp(Err("SyntaxError", 0, "JSON.parse"))

\* stage 4: the response written for the envelope the loop left in
\* apiResponse. Reading .candidates of null and .content of an undefined
\* candidate throw a TypeError, caught by the try around the stage.
ParseAndReturn(apiRes) ==
    IF apiRes.shape = "null"
    THEN ParseFailureResp(Err("TypeError", 0, "reading 'candidates'"))
    ELSE IF apiRes.shape = "nocandidates"
    THEN ParseFailureResp(Err("TypeError", 0, "reading 'content'"))
    ELSE IF apiRes.shape # "text" \/ apiRes.text = <<>>
    THEN ParseFailureResp(Err("Gemini returned empty content", 0,
            IF Falsy(apiRes.finishReason) THEN "UNKNOWN" ELSE apiRes.finishReason))
    ELSE LET parsed == JSONparse(apiRes.text) IN
         IF parsed.ok
         THEN Resp(200, Undefined, Undefined, NoError, JSONstringify(parsed.val))
         ELSE ParseFailureResp(Err("SyntaxError", 0, "JSON.parse"))

\* ---------------------------------------------------------------------
\* State
\* ---------------------------------------------------------------------
VARIABLES
    req,            \* the request
    apiKey,         \* process.env.GEMINI_API_KEY
    pc,             \* "start", "fetch" (awaiting fetch), "json" (awaiting
                    \* response.json()), "backoff" (awaiting the timer), "done"
    i,              \* the loop counter
    apiResponse,    \* let apiResponse
    lastError,      \* let lastError
    response,       \* status of the const response of the current attempt
    delay,          \* the delay of the pending timer
    res,            \* the responses written to res, in order
    calls,          \* history: number of fetch calls made
    waited,         \* history: total delay of the timers that fired
    waits,          \* history: number of timers that fired
    last,           \* history: the provider's reply to the latest attempt
    priorRetryable  \* history: every attempt before the latest one was
                    \* answered with a retryable status

vars == <<req, apiKey, pc, i, apiResponse, lastError, response, delay, res,
          calls, waited, waits, last, priorRetryable>>

\* a reply as observed: n the attempt (1-based), status 0 when fetch itself
\* rejected, body the error body or the envelope shape
Reply(n, status, body, reason, text) ==
    [n |-> n, status |-> status, body |-> body, finishReason |-> reason, text |-> text]

NoReply == Reply(0, 0, "none", Undefined, <<>>)

Init ==
    /\ req \in Requests
    /\ apiKey \in Keys
    /\ pc = "start"
    /\ i = 0
    /\ apiResponse = NullResponse
    /\ lastError = NoError
    /\ response = 0
    /\ delay = 0
    /\ res = <<>>
    /\ calls = 0
    /\ waited = 0
    /\ waits = 0
    /\ last = NoReply
    /\ priorRetryable = TRUE

\* history bookkeeping when the reply to the current attempt is observed
Observe(reply) ==
    /\ last' = reply
    /\ priorRetryable' = (calls = 1 \/ (priorRetryable /\ RetryableStatus(last.status)))

\* handler entry up to the first await: validation, then the first fetch
Invoke ==
    /\ pc = "start"
    /\ LET v == Validate(req, apiKey) IN
       /\ res' = v.sent
       /\ IF v.returned
          THEN /\ pc' = "done"
               /\ calls' = calls
          ELSE /\ pc' = "fetch"
               /\ calls' = calls + 1
    /\ i' = 0
    /\ apiResponse' = NullResponse
    /\ lastError' = NoError
    /\ UNCHANGED <<req, apiKey, response, delay, waited, waits, last, priorRetryable>>

CatchBlockKeepFirst(error) ==
    /\ lastError' = (IF lastError = NoError THEN error ELSE lastError)
    /\ IF i < MAX_RETRIES - 1
       THEN /\ delay' = Delay(i)
            /\ pc' = "backoff"
            /\ res' = res
       ELSE /\ res' = Append(res, FinalFailure(lastError'))
            /\ pc' = "done"
            /\ delay' = delay

CatchBlockAlwaysWaits(error) ==
    /\ lastError' = error
    /\ IF i < MAX_RETRIES
       THEN /\ delay' = Delay(i)
            /\ pc' = "backoff"
            /\ res' = res
       ELSE /\ res' = Append(res, FinalFailure(lastError'))
            /\ pc' = "done"
            /\ delay' = delay

\* catch (error) { ... } of the retry loop
CatchBlock(error) ==
    /\ lastError' = error
    /\ IF i < MAX_RETRIES - 1
       THEN /\ delay' = Delay(i)
            /\ pc' = "backoff"
            /\ res' = res
       ELSE /\ res' = Append(res, FinalFailure(lastError'))
            /\ pc' = "done"
            /\ delay' = delay

FetchRejectsFatal ==
    /\ pc = "fetch"
    /\ lastError' = Err("fetch failed", 0, "network")
    /\ res' = Append(res, FinalFailure(lastError'))
    /\ pc' = "done"
    /\ delay' = delay
    /\ Observe(Reply(calls, 0, "rejected", Undefined, <<>>))
    /\ UNCHANGED <<req, apiKey, i, apiResponse, response, calls, waited, waits>>

\* fetch() rejects: no reply from the provider at all
FetchRejects ==
    /\ pc = "fetch"
    /\ CatchBlock(Err("fetch failed", 0, "network"))
    /\ Observe(Reply(calls, 0, "rejected", Undefined, <<>>))
    /\ UNCHANGED <<req, apiKey, i, apiResponse, response, calls, waited, waits>>

\* fetch() resolves with a response of some status
FetchResolves ==
    /\ pc = "fetch"
    /\ \E status \in Statuses : response' = status
    /\ pc' = "json"
    /\ UNCHANGED <<req, apiKey, i, apiResponse, lastError, delay, res, calls,
                   waited, waits, last, priorRetryable>>

\* !response.ok: the error body is read and an Error is thrown
ReadErrorBody ==
    /\ pc = "json"
    /\ ~Ok(response)
    /\ \E ebody \in ErrorBodies :
          /\ CatchBlock(ThrownForStatus(response, ebody))
          /\ Observe(Reply(calls, response, ebody, Undefined, <<>>))
    /\ UNCHANGED <<req, apiKey, i, apiResponse, response, calls, waited, waits>>

ReadOkBodyJsonOutsideTry ==
    /\ pc = "json"
    /\ Ok(response)
    /\ \E env \in Envelopes :
          /\ Observe(Reply(calls, response, env.shape, env.finishReason, env.text))
          /\ IF env.shape = "unparsable"
             THEN /\ pc' = "done"
                  /\ UNCHANGED <<apiResponse, res, lastError, delay>>
             ELSE /\ apiResponse' = env
                  /\ res' = Append(res, ParseAndReturn(apiResponse'))
                  /\ pc' = "done"
                  /\ UNCHANGED <<lastError, delay>>
    /\ UNCHANGED <<req, apiKey, i, response, calls, waited, waits>>

\* response.ok: apiResponse = await response.json(); break; then stage 4.
\* A body that is not JSON makes response.json() reject inside the try.
ReadOkBody ==
    /\ pc = "json"
    /\ Ok(response)
    /\ \E env \in Envelopes :
          /\ Observe(Reply(calls, response, env.shape, env.finishReason, env.text))
          /\ IF env.shape = "unparsable"
             THEN /\ CatchBlock(Err("SyntaxError", 0, "response.json"))
                  /\ apiResponse' = apiResponse
             ELSE /\ apiResponse' = env
                  /\ res' = Append(res, ParseAndReturn(apiResponse'))
                  /\ pc' = "done"
                  /\ UNCHANGED <<lastError, delay>>
    /\ UNCHANGED <<req, apiKey, i, response, calls, waited, waits>>

BackoffNotAwaited ==
    /\ pc = "backoff"
    /\ i' = i + 1
    /\ IF i' < MAX_RETRIES
       THEN /\ pc' = "fetch"
            /\ calls' = calls + 1
            /\ res' = res
       ELSE /\ pc' = "done"
            /\ calls' = calls
            /\ res' = Append(res, ParseAndReturn(apiResponse))
    /\ UNCHANGED <<req, apiKey, apiResponse, lastError, response, delay, last,
                   priorRetryable, waited, waits>>

BackoffNeverResolves ==
    /\ pc = "backoff"
    /\ FALSE
    /\ UNCHANGED vars

\* the timer fires: i++, the loop condition, the next fetch
BackoffElapsed ==
    /\ pc = "backoff"
    /\ waited' = waited + delay
    /\ waits' = waits + 1
    /\ i' = i + 1
    /\ IF i' < MAX_RETRIES
       THEN /\ pc' = "fetch"
            /\ calls' = calls + 1
            /\ res' = res
       ELSE /\ pc' = "done"
            /\ calls' = calls
            /\ res' = Append(res, ParseAndReturn(apiResponse))
    /\ UNCHANGED <<req, apiKey, apiResponse, lastError, response, delay, last,
                   priorRetryable>>

Next ==
    \/ Invoke
    \/ FetchRejects
    \/ FetchResolves
    \/ ReadErrorBody
    \/ ReadOkBody
    \/ BackoffElapsed

Spec == Init /\ [][Next]_vars

\* The same handler with the provider's texts limited to LiveMaxLen tokens,
\* for the properties of progress, which do not depend on the text.
FairNext ==
    \/ Invoke
    \/ FetchRejects
    \/ FetchResolves
    \/ ReadErrorBody
    \/ ReadOkBody /\ Len(last'.text) <= LiveMaxLen
    \/ BackoffElapsed

\* every pending promise settles: a call returns or fails, a timer fires
FairSpec == Init /\ [][FairNext]_vars /\ WF_vars(FairNext)

\* ---------------------------------------------------------------------
\* Properties
\* ---------------------------------------------------------------------
\* the prompt is missing: no body to destructure, field absent, empty string
PromptMissing == ~req.body.defined \/ req.body.prompt = Undefined \/ req.body.prompt = ""

\* no credential is configured
NoCredential == apiKey = Undefined \/ apiKey = ""

\* every attempt answered so far was answered with a retryable status
AllRetryable == last.n >= 1 /\ priorRetryable /\ RetryableStatus(last.status)

\* the latest attempt returned a success status with a non-empty text in
\* candidates[0].content.parts[0]
TextReply == last.n >= 1 /\ Ok(last.status) /\ last.body = "text" /\ last.text # <<>>

\* C1: exactly one response is written per invocation: never two (so never a
\* success and an error), and one has been written when the handler is done.
C1_ExactlyOneResponse ==
    /\ Len(res) <= 1
    /\ (pc = "done") <=> (Len(res) = 1)

C1_Witness ==
    /\ pc = "done"
    /\ calls = MAX_RETRIES
    /\ Len(res) = 1
    /\ res[1].status = 500

\* C2: once an attempt is answered with 403 or 400 the handler is done: it has
\* sent a 500 response, has made no call after that attempt and is not waiting.
C2_AuthStatusStops ==
    (last.n >= 1 /\ last.status \in {400, 403})
        => /\ pc = "done"
           /\ calls = last.n
           /\ Len(res) = 1
           /\ res[1].status = 500

\* C3 as stated: a missing prompt gives zero calls and a 400 response, whatever
\* the method and the credential.
C3_MissingPromptAlways400 ==
    (PromptMissing /\ pc = "done")
        => /\ calls = 0
           /\ Len(res) = 1
           /\ res[1].status = 400

\* C3 amended: a missing prompt gives zero calls whatever the method and the
\* credential, and a 400 response when the method is POST and a credential is
\* configured.
C3_MissingPrompt ==
    PromptMissing
        => /\ calls = 0
           /\ pc \in {"start", "done"}
           /\ (pc = "done" /\ req.method = "POST" /\ ~NoCredential)
                 => (Len(res) = 1 /\ res[1].status = 400)

C3_Witness ==
    /\ pc = "done"
    /\ req.method = "POST"
    /\ apiKey = "key"
    /\ req.body.defined
    /\ req.body.prompt = ""
    /\ calls = 0
    /\ res[1].status = 400

\* C4 as stated: no credential gives zero calls and a 500 response with
\* errorCode NO_API_KEY_CONFIGURED, for every request.
C4_NoKeyAlways500 ==
    (NoCredential /\ pc = "done")
        => /\ calls = 0
           /\ Len(res) = 1
           /\ res[1].status = 500
           /\ res[1].errorCode = "NO_API_KEY_CONFIGURED"

\* C4 amended: no credential gives zero calls for every request, and for a POST
\* request a 500 response with errorCode NO_API_KEY_CONFIGURED whatever the body.
C4_NoKey ==
    NoCredential
        => /\ calls = 0
           /\ pc \in {"start", "done"}
           /\ (pc = "done" /\ req.method = "POST")
                 => /\ Len(res) = 1
                    /\ res[1].status = 500
                    /\ res[1].errorCode = "NO_API_KEY_CONFIGURED"

C4_Witness ==
    /\ pc = "done"
    /\ req.method = "POST"
    /\ apiKey = ""
    /\ req.body.prompt = "p"
    /\ calls = 0
    /\ res[1].errorCode = "NO_API_KEY_CONFIGURED"

\* C5: at most 5 calls are made; while every attempt so far got a retryable
\* status and fewer than 5 were made nothing is sent; when all 5 got a
\* retryable status exactly 5 calls were made and the response is a 500 whose
\* errorDetails is the error of the 5th attempt, with no success payload.
C5_BudgetAndLastError ==
    /\ calls <= 5
    /\ (AllRetryable /\ last.n < 5) => (pc # "done" /\ res = <<>>)
    /\ (AllRetryable /\ last.n = 5)
          => /\ pc = "done"
             /\ calls = 5
             /\ Len(res) = 1
             /\ res[1].status = 500
             /\ res[1].errorDetails = ThrownForStatus(last.status, last.body)
             /\ res[1].payload = <<>>

C5_Witness ==
    /\ pc = "done"
    /\ AllRetryable
    /\ last.n = 5
    /\ last.status = 429
    /\ last.body = "message"
    /\ calls = 5
    /\ res[1].errorDetails.status = 429

\* C6: retryable statuses on attempts 1..k-1 and a success status with valid
\* JSON text on attempt k: nothing is sent while attempt k is pending, exactly
\* k calls are made, the timers that fired add up to 2^(k-1) - 1 units, and
\* the response is the 200 carrying the parsed value.
C6_SuccessAfterRetries ==
    /\ ((last.n = 0 \/ AllRetryable) /\ pc \in {"fetch", "json", "backoff"}) => res = <<>>
    /\ (TextReply /\ priorRetryable /\ JSONparse(last.text).ok)
          => /\ pc = "done"
             /\ calls = last.n
             /\ waited = (2 ^ (last.n - 1) - 1) * BASE_DELAY
             /\ res = <<Resp(200, Undefined, Undefined, NoError,
                             JSONstringify(JSONparse(last.text).val))>>

C6_Witness ==
    /\ pc = "done"
    /\ TextReply
    /\ priorRetryable
    /\ last.n = 5
    /\ calls = 5
    /\ waited = 15 * BASE_DELAY
    /\ res[1].status = 200

\* C7: once an attempt is answered with a non-success status other than 400,
\* 403, 429 and >= 500 the handler is done: it has sent a 500 response and
\* has made no call after that attempt.
C7_UnhandledStatusStops ==
    (last.n >= 1 /\ last.status # 0 /\ ~Ok(last.status)
        /\ last.status \notin {400, 403} /\ ~RetryableStatus(last.status))
        => /\ pc = "done"
           /\ calls = last.n
           /\ Len(res) = 1
           /\ res[1].status = 500

\* C8: a 200 is sent only for a success reply whose text parsed as JSON; a text
\* that is not valid JSON ends the invocation with a 500 reporting the parse
\* error, no later call, and the text is never the body of a 200.
C8_SuccessOnlyIfParsed ==
    /\ \A k \in 1..Len(res) :
          res[k].status = 200 => (TextReply /\ JSONparse(last.text).ok)
    /\ (TextReply /\ ~JSONparse(last.text).ok)
          => /\ pc = "done"
             /\ calls = last.n
             /\ Len(res) = 1
             /\ res[1].status = 500
             /\ res[1].errorDetails = Err("SyntaxError", 0, "JSON.parse")
             /\ res[1].payload # last.text

C8_Witness ==
    /\ pc = "done"
    /\ TextReply
    /\ last.text = <<"[", "O", ",", "]">>
    /\ res[1].status = 500
    /\ res[1].errorDetails.kind = "SyntaxError"

\* C9: a success reply whose text is well-formed JSON gives a 200 whose body,
\* read back by the caller, is the value the text parses to: same elements,
\* same order, nothing added.
C9_BodyIsParsedValue ==
    (TextReply /\ JSONparse(last.text).ok)
        => /\ pc = "done"
           /\ Len(res) = 1
           /\ res[1].status = 200
           /\ JSONparse(res[1].payload).ok
           /\ JSONparse(res[1].payload).val = JSONparse(last.text).val

C9_Witness ==
    /\ pc = "done"
    /\ TextReply
    /\ JSONparse(last.text).ok
    /\ JSONparse(last.text).val = Arr(<<Atom("O"), Atom("1")>>)
    /\ res[1].status = 200
    /\ res[1].payload = <<"[", "O", ",", "1", "]">>

\* C10: a success reply whose first candidate carries no text (no first
\* candidate, no content, no parts, empty parts) ends the invocation with a
\* 500 whose error names the finish reason, UNKNOWN when there is none, and
\* no later call.
C10_EmptyContentNamesFinishReason ==
    (last.n >= 1 /\ Ok(last.status)
        /\ last.body \in {"nocandidates", "nocontent", "noparts", "emptyparts"})
        => /\ pc = "done"
           /\ calls = last.n
           /\ Len(res) = 1
           /\ res[1].status = 500
           /\ res[1].errorDetails.kind = "Gemini returned empty content"
           /\ res[1].errorDetails.detail =
                 (IF last.finishReason = Undefined THEN "UNKNOWN" ELSE last.finishReason)

\* all 5 attempts failed: the catch block sent the final failure response
AllFiveFailed ==
    /\ pc = "done"
    /\ calls = 5
    /\ Len(res) = 1
    /\ res[1].message = "Gemini API call failed"

\* C11 as stated: a wait of 2^i units follows every failed attempt 0..4, so
\* an invocation in which all 5 attempts fail has waited 31 units.
C11_AllFailWaits31 ==
    AllFiveFailed => waited = 31 * BASE_DELAY

\* C11 amended: the wait pending after failed attempt i is exactly 2^i units
\* for i in 0..3 (1, 2, 4, 8: no jitter, no cap), the waits add up to
\* 2^n - 1 units after n of them, and no wait follows the 5th failed attempt:
\* an invocation in which all 5 attempts fail has waited 15 units.
C11_Backoff ==
    /\ pc = "backoff" => (i <= 3 /\ waits = i /\ delay = (2 ^ i) * BASE_DELAY)
    /\ waited = (2 ^ waits - 1) * BASE_DELAY
    /\ AllFiveFailed => (waits = 4 /\ waited = 15 * BASE_DELAY)

C11_Witness ==
    /\ AllFiveFailed
    /\ last.status = 503
    /\ waited = (1 + 2 + 4 + 8) * BASE_DELAY

\* C12: a request whose method is not POST makes no call and no wait, leaves
\* the loop state untouched, and is answered 405, whatever the credential and
\* the body.
C12_NonPost405 ==
    req.method # "POST"
        => /\ pc \in {"start", "done"}
           /\ calls = 0
           /\ waits = 0
           /\ waited = 0
           /\ apiResponse = NullResponse
           /\ lastError = NoError
           /\ pc = "done"
                 => res = <<ErrorResp(405, "Method Not Allowed", Undefined, NoError)>>

C12_Witness ==
    /\ pc = "done"
    /\ req.method = "GET"
    /\ apiKey = Undefined
    /\ ~req.body.defined
    /\ calls = 0
    /\ res[1].status = 405

\* C13: the fault reported is the first in the order method, credential,
\* input: non-POST gets 405; POST without credential gets 500
\* NO_API_KEY_CONFIGURED even with the prompt missing; 400 is sent exactly for
\* a POST request with a credential and a missing prompt.
C13_DetectionOrder ==
    pc = "done"
        => /\ Len(res) >= 1
           /\ req.method # "POST" => res[1].status = 405
           /\ (req.method = "POST" /\ NoCredential)
                 => (res[1].status = 500 /\ res[1].errorCode = "NO_API_KEY_CONFIGURED")
           /\ (res[1].status = 400)
                 <=> (req.method = "POST" /\ ~NoCredential /\ PromptMissing)

C13_Witness ==
    /\ pc = "done"
    /\ req.method = "POST"
    /\ NoCredential
    /\ PromptMissing
    /\ res[1].status = 500
    /\ res[1].errorCode = "NO_API_KEY_CONFIGURED"

\* C14: calls start one at a time; none starts while a call is pending or
\* after the handler is done; a call after the first starts only from the
\* backoff of the previous attempt, whose reply was observed and failed,
\* when its whole delay has elapsed, and with no response sent and no
\* envelope obtained.
C14_Sequential ==
    [][ /\ calls' \in {calls, calls + 1}
        /\ pc \in {"fetch", "json", "done"} => calls' = calls
        /\ calls' = calls + 1
              => /\ pc' = "fetch"
                 /\ res = <<>> /\ res' = <<>>
                 /\ apiResponse = NullResponse
                 /\ \/ pc = "start" /\ calls = 0
                    \/ /\ pc = "backoff"
                       /\ last.n = calls
                       /\ lastError # NoError
                       /\ waited' = waited + (2 ^ (calls - 1)) * BASE_DELAY
      ]_vars

C14_Witness ==
    /\ pc = "fetch"
    /\ calls = 3
    /\ last.n = 2
    /\ waits = 2
    /\ waited = 3 * BASE_DELAY
    /\ res = <<>>

\* the latest attempt returned a success status with a body that is not JSON
BadBodyReply == last.n >= 1 /\ Ok(last.status) /\ last.body = "unparsable"

\* C15: a success status with a body that is not JSON is a failed attempt:
\* lastError is set, no envelope is kept, the attempt is used up, and it is
\* followed by the backoff and the next attempt, or by the final 500 when it
\* was the 5th.
C15_BadBodyIsFailure ==
    BadBodyReply
        => /\ lastError = Err("SyntaxError", 0, "response.json")
           /\ apiResponse = NullResponse
           /\ last.n < 5
                 => /\ res = <<>>
                    /\ \/ pc = "backoff" /\ i = last.n - 1 /\ calls = last.n
                       \/ pc \in {"fetch", "json"} /\ i = last.n /\ calls = last.n + 1
           /\ last.n = 5
                 => /\ pc = "done"
                    /\ calls = 5
                    /\ res = <<FinalFailure(Err("SyntaxError", 0, "response.json"))>>

C15_Witness ==
    /\ BadBodyReply
    /\ last.n = 2
    /\ pc = "fetch"
    /\ calls = 3
    /\ waits = 2

\* C16: when every call returns or fails and every timer fires, the handler
\* eventually sends its response, whatever the provider answers.
C16_EventuallyResponds == <>(pc = "done" /\ Len(res) = 1)

C16_Witness ==
    /\ pc = "done"
    /\ Len(res) = 1
    /\ calls = 5
    /\ waits = 4
    /\ last.status = 404

\* the latest attempt failed at transport level: fetch itself rejected
RejectedReply == last.n >= 1 /\ last.body = "rejected"

\* C17: a rejected fetch is a failed attempt like a retryable status: it uses
\* up one attempt, is followed by the backoff and the next attempt while fewer
\* than 5 were made, and the 5th one is answered 500 with its message.
C17_TransportFailureRetried ==
    RejectedReply
        => /\ lastError = Err("fetch failed", 0, "network")
           /\ last.n < 5
                 => /\ res = <<>>
                    /\ \/ pc = "backoff" /\ i = last.n - 1 /\ calls = last.n
                       \/ pc \in {"fetch", "json"} /\ i = last.n /\ calls = last.n + 1
           /\ last.n = 5
                 => /\ pc = "done"
                    /\ calls = 5
                    /\ res = <<FinalFailure(Err("fetch failed", 0, "network"))>>

C17_Witness ==
    /\ RejectedReply
    /\ last.n = 5
    /\ pc = "done"
    /\ calls = 5
    /\ res[1].status = 500
    /\ res[1].errorDetails.kind = "fetch failed"

\* C18: when the response is sent the number of timers that fired is the
\* number of calls minus one, zero when no call was made; no timer is
\* pending then.
C18_WaitsAreCallsMinusOne ==
    pc = "done"
        => /\ Len(res) = 1
           /\ waits = (IF calls = 0 THEN 0 ELSE calls - 1)

C18_Witness ==
    /\ pc = "done"
    /\ calls = 3
    /\ waits = 2
    /\ res[1].status = 200

====
